---- MODULE Spec2Model ----
(***************************************************************************)
(* Model of causal_impact_1.py: a Streamlit script that runs two causal    *)
(* impact analyses (brand pause, budget shift) one after the other.        *)
(*                                                                         *)
(* Dates are day numbers counted from 2024-01-01 (day 0, a Monday).        *)
(* A DataFrame is a record [index, columns, rows]: index is the sequence   *)
(* of row labels, columns the sequence of column names, rows a sequence of *)
(* functions from column name to cell.                                     *)
(* Summary values are fixed-point integers in units of 10^-5.              *)
(* Cells of the inference tables are options: <<>> is NaN, <<v>> is v.     *)
(***************************************************************************)
EXTENDS Integers, Sequences, FiniteSets, TLC

VARIABLES
    pc,               \* position of the script run
    raised,           \* the uncaught exception that ended the run, or "none"
    st_error,         \* TRUE once st.error(...) has been shown
    csv_ci,           \* the table parsed from dummy_data_ci.csv
    csv_ci2,          \* the table parsed from dummy_data_ci2.csv
    df, df2,
    markets, selected_market,
    df_m, full_weeks, pre_period, post_period, ci_data,
    impact, summary, rel_effect_fmt, ci_fmt, avg_effect_fmt, inferences,
    df_m2, full_weeks2, pre_period2, post_period2, ci_data2,
    impact2, summary2, rel_effect_fmt2, ci_fmt2, avg_effect_fmt2, inferences2,
    estimator_calls   \* the arguments of every CausalImpact(...) call so far

vars == <<pc, raised, st_error, csv_ci, csv_ci2, df, df2, markets, selected_market,
          df_m, full_weeks, pre_period, post_period, ci_data,
          impact, summary, rel_effect_fmt, ci_fmt, avg_effect_fmt, inferences,
          df_m2, full_weeks2, pre_period2, post_period2, ci_data2,
          impact2, summary2, rel_effect_fmt2, ci_fmt2, avg_effect_fmt2, inferences2,
          estimator_calls>>

data_vars == <<csv_ci, csv_ci2, df, df2>>
analysis1_vars == <<df_m, full_weeks, pre_period, post_period, ci_data,
                    impact, summary, rel_effect_fmt, ci_fmt, avg_effect_fmt, inferences>>
analysis2_vars == <<df_m2, full_weeks2, pre_period2, post_period2, ci_data2,
                    impact2, summary2, rel_effect_fmt2, ci_fmt2, avg_effect_fmt2,
                    inferences2>>

-----------------------------------------------------------------------------
(* Bounds of the input tables.                                             *)

\* Longest table of arbitrary rows read from dummy_data_ci.csv.
MaxRows == 3
\* Longest table of arbitrary rows read from dummy_data_ci2.csv.
MaxRows2 == 1

-----------------------------------------------------------------------------
(* Program constants.                                                      *)

\* pause_date = '2024-07-28'
pause_date == 209
\* pause_date2 = '2025-02-09'
pause_date2 == 405
\* pd.date_range(start="2024-01-01", ...)
date_range_start == 0
\* pd.date_range(start="2024-05-05", ...)
date_range_start2 == 125
\* pd.date_range(..., periods=52, ...)
periods == 52
\* pd.date_range(..., freq='W'): weekly, anchored on Sunday
freq_W == 7
\* weekday of a Sunday when Monday is 0 (day 0 is a Monday)
Sunday == 6
\* pandas' NaT: what max()/min() of an empty DatetimeIndex returns
NaT == -1
\* the value a missing st.selectbox selection has (Python's None)
None == "None"

required_columns == {"date", "market", "conversions", "Paid Search", "Paid Social"}

-----------------------------------------------------------------------------
(* Sequences and pandas primitives.                                        *)

Range(s) == {s[i] : i \in DOMAIN s}

Positions(s) == [i \in 1..Len(s) |-> i]

NaN == <<>>
Num(v) == <<v>>

NoFrame == [index |-> <<>>, columns |-> <<>>, rows |-> <<>>]

\* df.iloc[pos]: the rows at the given positions, in that order
Take(frame, pos) ==
    [index   |-> [i \in 1..Len(pos) |-> frame.index[pos[i]]],
     columns |-> frame.columns,
     rows    |-> [i \in 1..Len(pos) |-> frame.rows[pos[i]]]]

\* df[df[col] == value]
FilterEq(frame, col, value) ==
    Take(frame, SelectSeq(Positions(frame.rows),
                          LAMBDA i : frame.rows[i][col] = value))

\* df[[c1, c2, ...]]
SelectColumns(frame, cols) ==
    [index   |-> frame.index,
     columns |-> cols,
     rows    |-> [i \in 1..Len(frame.rows) |->
                    [c \in Range(cols) |-> frame.rows[i][c]]]]

\* df[col] as the sequence of its cells
Column(frame, col) == [i \in 1..Len(frame.rows) |-> frame.rows[i][col]]

\* df.set_index(col)
SetIndex(frame, col) ==
    LET rest == SelectSeq(frame.columns, LAMBDA c : c # col)
    IN  [index   |-> Column(frame, col),
         columns |-> rest,
         rows    |-> [i \in 1..Len(frame.rows) |->
                        [c \in Range(rest) |-> frame.rows[i][c]]]]

\* Series.unique() / Index.unique(): first occurrences, in order
Unique(s) ==
    LET firsts == SelectSeq(Positions(s),
                            LAMBDA i : \A j \in 1..(i - 1) : s[j] # s[i])
    IN  [k \in 1..Len(firsts) |-> s[firsts[k]]]

\* Index.sort_values(): ascending, equal values in their original order
SortValues(s) ==
    LET rank == [i \in 1..Len(s) |->
                    Cardinality({j \in 1..Len(s) :
                                    s[j] < s[i] \/ (s[j] = s[i] /\ j <= i)})]
    IN  [k \in 1..Len(s) |-> s[CHOOSE i \in 1..Len(s) : rank[i] = k]]

\* Index.min(): NaT when empty
IndexMin(s) ==
    IF s = <<>> THEN NaT
    ELSE s[CHOOSE i \in 1..Len(s) : \A j \in 1..Len(s) : s[i] <= s[j]]

\* Index.max(): NaT when empty
IndexMax(s) ==
    IF s = <<>> THEN NaT
    ELSE s[CHOOSE i \in 1..Len(s) : \A j \in 1..Len(s) : s[i] >= s[j]]

\* a slip of the comparison: <= for <
BeforeOrAt(ts, pause) == ts <= pause

\* the comparison of full_weeks < pd.to_datetime(pause)
Before(ts, pause) == ts < pause

\* full_weeks[full_weeks < pd.to_datetime(pause)]
IndexBefore(s, pause) == SelectSeq(s, LAMBDA ts : Before(ts, pause))

-----------------------------------------------------------------------------
(* The CSV files: the tables pd.read_csv can hand to the script.           *)

Markets == {"DE", "FR"}

\* Dates of the short tables: around both pause dates
Dates == {pause_date - freq_W, pause_date, pause_date2}

\* Column layouts of a file: the five required columns (conversions last),
\* with one extra column, or with any one required column absent
BaseLayout == <<"date", "market", "Paid Search", "Paid Social", "conversions">>

Layouts ==
    {BaseLayout, Append(BaseLayout, "region")}
    \cup {SelectSeq(BaseLayout, LAMBDA c : c # gone) : gone \in required_columns}

\* The i-th line of a file: its cells are told apart by i
CsvCell(i, d, m, c) ==
    CASE c = "date"        -> d
      [] c = "market"      -> m
      [] c = "conversions" -> 10 * i
      [] c = "Paid Search" -> 10 * i + 1
      [] c = "Paid Social" -> 10 * i + 2
      [] OTHER             -> "EU"

\* A parsed file with a RangeIndex: line i has date ds[i] and market ms[i]
CsvTable(layout, ds, ms) ==
    [index   |-> [i \in 1..Len(ds) |-> i - 1],
     columns |-> layout,
     rows    |-> [i \in 1..Len(ds) |->
                    [c \in Range(layout) |-> CsvCell(i, ds[i], ms[i], c)]]]

\* Every table of at most n lines over the dates ds and the markets ms,
\* in any order and with repetitions
ShortTables(n, layout, ds, ms) ==
    UNION {{CsvTable(layout, [i \in 1..k |-> f[i][1]], [i \in 1..k |-> f[i][2]]) :
                f \in [1..k -> ds \X ms]} : k \in 0..n}

\* pd.date_range(start, periods, freq='W'): the Sundays on or after start
DateRange(start, n) ==
    LET first == start + ((Sunday - (start % freq_W)) % freq_W)
    IN  [i \in 1..n |-> first + freq_W * (i - 1)]

\* A weekly panel: `periods` weeks from the first Sunday on or after start,
\* one line per week and market
WeeklyTable(start, ms, layout) ==
    LET weeks == DateRange(start, periods)
        n == periods * Len(ms)
    IN  CsvTable(layout,
                 [i \in 1..n |-> weeks[((i - 1) \div Len(ms)) + 1]],
                 [i \in 1..n |-> ms[((i - 1) % Len(ms)) + 1]])

WeeklyTables(layout) ==
    {WeeklyTable(start, ms, layout) :
        start \in {date_range_start, date_range_start2},
        ms \in {<<"DE">>, <<"DE", "FR">>}}

\* What dummy_data_ci.csv can hold
CsvFiles ==
    UNION {ShortTables(MaxRows, layout, Dates, Markets) \cup WeeklyTables(layout) :
              layout \in Layouts}

\* What dummy_data_ci2.csv can hold: the script never looks at its lines
CsvFiles2 ==
    UNION {ShortTables(MaxRows2, layout, {pause_date2}, {"DE"}) : layout \in Layouts}
    \cup {WeeklyTable(date_range_start2, <<"DE">>, BaseLayout)}

-----------------------------------------------------------------------------
(* The estimator: causalimpact.CausalImpact, an external collaborator.     *)

StrictlyIncreasing(s) == \A i \in 1..(Len(s) - 1) : s[i] < s[i + 1]

\* The inputs the estimator fits: a series with unique increasing timestamps,
\* a non-empty pre-period that wholly precedes the post-period, both inside
\* the series' timestamp range
EstimatorAccepts(data, pre, post) ==
    /\ data.index # <<>>
    /\ StrictlyIncreasing(data.index)
    /\ pre[1] # NaT /\ pre[2] # NaT /\ post[2] # NaT
    /\ pre[1] <= pre[2] /\ pre[2] < post[1] /\ post[1] <= post[2]
    /\ data.index[1] <= pre[1] /\ post[2] <= data.index[Len(data.index)]

\* The summary_data column "average" the estimator can come up with,
\* in units of 10^-5
SummaryInputs ==
    {[abs_effect |-> 1234567, rel_effect |-> 12346,
      rel_effect_lower |-> 5006, rel_effect_upper |-> 20496],
     [abs_effect |-> -300000, rel_effect |-> -3000,
      rel_effect_lower |-> -8000, rel_effect_upper |-> 2000],
     [abs_effect |-> 0, rel_effect |-> 0,
      rel_effect_lower |-> 0, rel_effect_upper |-> 0]}

NoSummary == [abs_effect |-> 0, rel_effect |-> 0,
              rel_effect_lower |-> 0, rel_effect_upper |-> 0]

InferenceColumns ==
    <<"preds", "point_effects", "post_cum_effects",
      "post_cum_effects_lower", "post_cum_effects_upper">>

\* One row per timestamp of the series; the cumulative effect is the running
\* sum of the point effects inside the post-period and NaN before it
EstimatorInferences(data, post, s) ==
    LET effect == s.abs_effect \div 100000
        seen(i) == Cardinality({j \in 1..i : data.index[j] >= post[1]})
        cell(i, c) ==
            IF data.index[i] < post[1]
            THEN CASE c = "preds"         -> Num(data.rows[i]["conversions"])
                   [] c = "point_effects" -> Num(0)
                   [] OTHER               -> NaN
            ELSE CASE c = "preds"         -> Num(data.rows[i]["conversions"] - effect)
                   [] c = "point_effects" -> Num(effect)
                   [] c = "post_cum_effects"       -> Num(effect * seen(i))
                   [] c = "post_cum_effects_lower" -> Num(effect * seen(i) - seen(i))
                   [] OTHER                        -> Num(effect * seen(i) + seen(i))
    IN  [index   |-> data.index,
         columns |-> InferenceColumns,
         rows    |-> [i \in 1..Len(data.index) |->
                        [c \in Range(InferenceColumns) |-> cell(i, c)]]]

\* The object CausalImpact(data, pre, post) returns
CausalImpact(data, pre, post, s) ==
    [data         |-> data,
     inferences   |-> EstimatorInferences(data, post, s),
     summary_data |-> s]

NoImpact == [data |-> NoFrame, inferences |-> NoFrame, summary_data |-> NoSummary]

-----------------------------------------------------------------------------
(* The script's own computations.                                          *)

\* a slip of the validation: it looks for the key columns only
ColumnsValidKeysOnly(frame) == {"date", "market"} \subseteq Range(frame.columns)

\* required_columns.issubset(df.columns)
ColumnsValid(frame) == required_columns \subseteq Range(frame.columns)

\* pd.read_csv(..., parse_dates=["date"]) raises ValueError without the column
ParsesDates(file) == "date" \in Range(file.columns)

\* the options st.selectbox can return: any option, None when there is none
SelectboxChoices(options) ==
    IF options = <<>> THEN {None} ELSE Range(options)

\* a slip of the market filter: it keeps every row
MarketRowsUnfiltered(frame, market) == frame

\* the rows the market filter keeps
MarketRows(frame, market) == FilterEq(frame, "market", market)

\* df[df["market"] == selected_market].copy(), the four columns, set_index("date")
PrepareFrame(frame, market) ==
    SetIndex(SelectColumns(MarketRows(frame, market),
                           <<"date", "Paid Search", "Paid Social", "conversions">>),
             "date")

\* df_m.index.sort_values().unique()
FullWeeks(frame) == Unique(SortValues(frame.index))

\* [full_weeks.min(), full_weeks[full_weeks < pause].max()]
PrePeriod(weeks, pause) == <<IndexMin(weeks), IndexMax(IndexBefore(weeks, pause))>>

\* [pd.to_datetime(pause), full_weeks.max()]
PostPeriod(weeks, pause) == <<pause, IndexMax(weeks)>>

\* df_m[["conversions", "Paid Search", "Paid Social"]]
CiData(frame) == SelectColumns(frame, <<"conversions", "Paid Search", "Paid Social">>)

\* round to the nearest multiple of unit, ties to the even multiple
RoundHalfEven(v, unit) ==
    LET q == v \div unit
        r == v % unit
    IN  IF 2 * r < unit THEN q * unit
        ELSE IF 2 * r > unit THEN (q + 1) * unit
        ELSE IF q % 2 = 0 THEN q * unit ELSE (q + 1) * unit

\* summary_data.round(2): two decimals are 1000 units of 10^-5
Round2(s) == [k \in DOMAIN s |-> RoundHalfEven(s[k], 1000)]

\* f"{x:.2%}": the percentage with two decimals, in hundredths of a percent
FormatPercent2(v) == RoundHalfEven(v, 10) \div 10

\* f"{x:,.2f}": the number with two decimals, in hundredths
FormatFixed2(v) == RoundHalfEven(v, 1000) \div 1000

\* inferences["date"] = <52 dates> needs as many rows as dates
LengthMatches(frame) == Len(frame.index) = periods

HasDuplicates(s) == \E i, j \in 1..Len(s) : i # j /\ s[i] = s[j]

\* the Series `values` indexed by `index`, reindexed to `labels`
AlignTo(labels, index, values) ==
    [i \in 1..Len(labels) |->
        IF labels[i] \in Range(index)
        THEN Num(values[CHOOSE j \in 1..Len(index) : index[j] = labels[i]])
        ELSE NaN]

\* df.fillna(0)
FillNa0(frame) ==
    [frame EXCEPT !.rows =
        [i \in 1..Len(frame.rows) |->
            [c \in DOMAIN frame.rows[i] |->
                IF frame.rows[i][c] = NaN THEN Num(0) ELSE frame.rows[i][c]]]]

\* the rows iloc[1:] keeps
ILocFrom1(frame) == Take(frame, [i \in 1..(Len(frame.rows) - 1) |-> i + 1])

\* lines 107-112: relabel with the date range, add "actual" by index
\* alignment, drop the first row, fill the NaN cells with 0
DisplayInferences(imp, start) ==
    LET labels == DateRange(start, periods)
        actual == AlignTo(labels, imp.data.index, Column(imp.data, "conversions"))
        cols   == Append(imp.inferences.columns, "actual")
        frame  == [index   |-> labels,
                   columns |-> cols,
                   rows    |-> [i \in 1..Len(labels) |->
                                  [c \in Range(cols) |->
                                      IF c = "actual" THEN actual[i]
                                      ELSE imp.inferences.rows[i][c]]]]
    IN  FillNa0(ILocFrom1(frame))

-----------------------------------------------------------------------------
(* The run.                                                                *)

Init ==
    /\ pc = "load_data"
    /\ raised = "none"
    /\ st_error = FALSE
    /\ csv_ci = NoFrame /\ csv_ci2 = NoFrame
    /\ df = NoFrame /\ df2 = NoFrame
    /\ markets = <<>> /\ selected_market = None
    /\ df_m = NoFrame /\ full_weeks = <<>>
    /\ pre_period = <<>> /\ post_period = <<>> /\ ci_data = NoFrame
    /\ impact = NoImpact /\ summary = NoSummary
    /\ rel_effect_fmt = 0 /\ ci_fmt = <<0, 0>> /\ avg_effect_fmt = 0
    /\ inferences = NoFrame
    /\ df_m2 = NoFrame /\ full_weeks2 = <<>>
    /\ pre_period2 = <<>> /\ post_period2 = <<>> /\ ci_data2 = NoFrame
    /\ impact2 = NoImpact /\ summary2 = NoSummary
    /\ rel_effect_fmt2 = 0 /\ ci_fmt2 = <<0, 0>> /\ avg_effect_fmt2 = 0
    /\ inferences2 = NoFrame
    /\ estimator_calls = <<>>

\* df = load_data(), the first definition
LoadData ==
    /\ pc = "load_data"
    /\ \E file \in CsvFiles :
        /\ csv_ci' = file
        /\ IF ParsesDates(file)
           THEN df' = file /\ pc' = "validate" /\ raised' = raised
           ELSE df' = df /\ pc' = "raised" /\ raised' = "ValueError"
    /\ UNCHANGED <<st_error, csv_ci2, df2, markets, selected_market,
                   analysis1_vars, analysis2_vars, estimator_calls>>

\* if not required_columns.issubset(df.columns): st.error(...); st.stop()
Validate ==
    /\ pc = "validate"
    /\ IF ColumnsValid(df)
       THEN pc' = "select_market" /\ st_error' = st_error
       ELSE pc' = "stopped" /\ st_error' = TRUE
    /\ UNCHANGED <<raised, data_vars, markets, selected_market,
                   analysis1_vars, analysis2_vars, estimator_calls>>

\* markets = df["market"].unique(); selected_market = st.selectbox(...)
SelectMarket ==
    /\ pc = "select_market"
    /\ markets' = Unique(Column(df, "market"))
    /\ selected_market' \in SelectboxChoices(markets')
    /\ pc' = "prepare"
    /\ UNCHANGED <<raised, st_error, data_vars,
                   analysis1_vars, analysis2_vars, estimator_calls>>

\* df_m, full_weeks, pre_period, post_period, ci_data
Prepare ==
    /\ pc = "prepare"
    /\ df_m' = PrepareFrame(df, selected_market)
    /\ full_weeks' = FullWeeks(df_m')
    /\ pre_period' = PrePeriod(full_weeks', pause_date)
    /\ post_period' = PostPeriod(full_weeks', pause_date)
    /\ ci_data' = CiData(df_m')
    /\ pc' = "causal_impact"
    /\ UNCHANGED <<raised, st_error, data_vars, markets, selected_market,
                   impact, summary, rel_effect_fmt, ci_fmt, avg_effect_fmt, inferences,
                   analysis2_vars, estimator_calls>>

\* impact = CausalImpact(ci_data, pre_period, post_period)
CallCausalImpact ==
    /\ pc = "causal_impact"
    /\ estimator_calls' = Append(estimator_calls,
            [data |-> ci_data, pre_period |-> pre_period, post_period |-> post_period])
    /\ \/ /\ EstimatorAccepts(ci_data, pre_period, post_period)
          /\ \E s \in SummaryInputs :
                impact' = CausalImpact(ci_data, pre_period, post_period, s)
          /\ pc' = "summary" /\ raised' = raised
       \/ /\ impact' = impact
          /\ pc' = "raised" /\ raised' = "EstimatorError"
    /\ UNCHANGED <<st_error, data_vars, markets, selected_market,
                   df_m, full_weeks, pre_period, post_period, ci_data,
                   summary, rel_effect_fmt, ci_fmt, avg_effect_fmt, inferences,
                   analysis2_vars>>

\* summary = impact.summary_data.round(2) and the three formatted metrics
Summarise ==
    /\ pc = "summary"
    /\ summary' = Round2(impact.summary_data)
    /\ rel_effect_fmt' = FormatPercent2(summary'.rel_effect)
    /\ ci_fmt' = <<FormatPercent2(summary'.rel_effect_lower),
                   FormatPercent2(summary'.rel_effect_upper)>>
    /\ avg_effect_fmt' = FormatFixed2(summary'.abs_effect)
    /\ pc' = "inferences"
    /\ UNCHANGED <<raised, st_error, data_vars, markets, selected_market,
                   df_m, full_weeks, pre_period, post_period, ci_data, impact,
                   inferences, analysis2_vars, estimator_calls>>

\* inferences = impact.inferences.copy() ... .iloc[1:].fillna(0)
Inferences ==
    /\ pc = "inferences"
    /\ IF LengthMatches(impact.inferences) /\ ~HasDuplicates(impact.data.index)
       THEN /\ inferences' = DisplayInferences(impact, date_range_start)
            /\ pc' = "load_data2" /\ raised' = raised
       ELSE /\ inferences' = inferences
            /\ pc' = "raised" /\ raised' = "ValueError"
    /\ UNCHANGED <<st_error, data_vars, markets, selected_market,
                   df_m, full_weeks, pre_period, post_period, ci_data, impact,
                   summary, rel_effect_fmt, ci_fmt, avg_effect_fmt,
                   analysis2_vars, estimator_calls>>

\* df2 = load_data(), the second definition: it reads dummy_data_ci2.csv
\* into its local df2 and returns the global df
LoadData2 ==
    /\ pc = "load_data2"
    /\ \E file \in CsvFiles2 :
        /\ csv_ci2' = file
        /\ IF ParsesDates(file)
           THEN df2' = df /\ pc' = "validate2" /\ raised' = raised
           ELSE df2' = df2 /\ pc' = "raised" /\ raised' = "ValueError"
    /\ UNCHANGED <<st_error, csv_ci, df, markets, selected_market,
                   analysis1_vars, analysis2_vars, estimator_calls>>

\* if not required_columns.issubset(df.columns): st.error(...); st.stop()
Validate2 ==
    /\ pc = "validate2"
    /\ IF ColumnsValid(df)
       THEN pc' = "select_market2" /\ st_error' = st_error
       ELSE pc' = "stopped" /\ st_error' = TRUE
    /\ UNCHANGED <<raised, data_vars, markets, selected_market,
                   analysis1_vars, analysis2_vars, estimator_calls>>

\* markets = df["market"].unique(); selected_market = st.selectbox(...)
SelectMarket2 ==
    /\ pc = "select_market2"
    /\ markets' = Unique(Column(df, "market"))
    /\ selected_market' \in SelectboxChoices(markets')
    /\ pc' = "prepare2"
    /\ UNCHANGED <<raised, st_error, data_vars,
                   analysis1_vars, analysis2_vars, estimator_calls>>

\* df_m2, full_weeks2, pre_period2, post_period2, ci_data2
Prepare2 ==
    /\ pc = "prepare2"
    /\ df_m2' = PrepareFrame(df2, selected_market)
    /\ full_weeks2' = FullWeeks(df_m2')
    /\ pre_period2' = PrePeriod(full_weeks2', pause_date2)
    /\ post_period2' = PostPeriod(full_weeks2', pause_date2)
    /\ ci_data2' = CiData(df_m2')
    /\ pc' = "causal_impact2"
    /\ UNCHANGED <<raised, st_error, data_vars, markets, selected_market,
                   analysis1_vars,
                   impact2, summary2, rel_effect_fmt2, ci_fmt2, avg_effect_fmt2,
                   inferences2, estimator_calls>>

\* impact2 = CausalImpact(ci_data2, pre_period2, post_period2)
CallCausalImpact2 ==
    /\ pc = "causal_impact2"
    /\ estimator_calls' = Append(estimator_calls,
            [data |-> ci_data2, pre_period |-> pre_period2,
             post_period |-> post_period2])
    /\ \/ /\ EstimatorAccepts(ci_data2, pre_period2, post_period2)
          /\ \E s \in SummaryInputs :
                impact2' = CausalImpact(ci_data2, pre_period2, post_period2, s)
          /\ pc' = "summary2" /\ raised' = raised
       \/ /\ impact2' = impact2
          /\ pc' = "raised" /\ raised' = "EstimatorError"
    /\ UNCHANGED <<st_error, data_vars, markets, selected_market,
                   analysis1_vars,
                   df_m2, full_weeks2, pre_period2, post_period2, ci_data2,
                   summary2, rel_effect_fmt2, ci_fmt2, avg_effect_fmt2, inferences2>>

\* summary2 = impact2.summary_data.round(2) and the three formatted metrics
Summarise2 ==
    /\ pc = "summary2"
    /\ summary2' = Round2(impact2.summary_data)
    /\ rel_effect_fmt2' = FormatPercent2(summary2'.rel_effect)
    /\ ci_fmt2' = <<FormatPercent2(summary2'.rel_effect_lower),
                    FormatPercent2(summary2'.rel_effect_upper)>>
    /\ avg_effect_fmt2' = FormatFixed2(summary2'.abs_effect)
    /\ pc' = "inferences2"
    /\ UNCHANGED <<raised, st_error, data_vars, markets, selected_market,
                   analysis1_vars,
                   df_m2, full_weeks2, pre_period2, post_period2, ci_data2, impact2,
                   inferences2, estimator_calls>>

\* inferences2 = impact2.inferences.copy() ... .iloc[1:].fillna(0)
Inferences2 ==
    /\ pc = "inferences2"
    /\ IF LengthMatches(impact2.inferences) /\ ~HasDuplicates(impact2.data.index)
       THEN /\ inferences2' = DisplayInferences(impact2, date_range_start2)
            /\ pc' = "done" /\ raised' = raised
       ELSE /\ inferences2' = inferences2
            /\ pc' = "raised" /\ raised' = "ValueError"
    /\ UNCHANGED <<st_error, data_vars, markets, selected_market,
                   analysis1_vars,
                   df_m2, full_weeks2, pre_period2, post_period2, ci_data2, impact2,
                   summary2, rel_effect_fmt2, ci_fmt2, avg_effect_fmt2,
                   estimator_calls>>

Next ==
    \/ LoadData \/ Validate \/ SelectMarket \/ Prepare
    \/ CallCausalImpact \/ Summarise \/ Inferences
    \/ LoadData2 \/ Validate2 \/ SelectMarket2 \/ Prepare2
    \/ CallCausalImpact2 \/ Summarise2 \/ Inferences2

Spec == Init /\ [][Next]_vars

-----------------------------------------------------------------------------
(* What the claims speak about.                                            *)

ClaimColumns == {"date", "market", "conversions", "Paid Search", "Paid Social"}

Loaded(frame) == frame.columns # <<>>

LacksColumn(frame) == Loaded(frame) /\ ~(ClaimColumns \subseteq Range(frame.columns))

\* the lines of a table that belong to a market
GroupLines(frame, market) ==
    {i \in 1..Len(frame.rows) : frame.rows[i]["market"] = market}

\* the timestamps of a market's lines
GroupTimestamps(frame, market) ==
    {frame.rows[i]["date"] : i \in GroupLines(frame, market)}

Least(S) == CHOOSE x \in S : \A y \in S : x <= y
Greatest(S) == CHOOSE x \in S : \A y \in S : x >= y

Halted == pc \in {"stopped", "raised"}

\* CausalImpact has been called in the first, in the second analysis
FirstCallMade == Len(estimator_calls) >= 1
SecondCallMade == Len(estimator_calls) = 2

-----------------------------------------------------------------------------
\* C1: a table that lacks a required column makes the run show the schema
\* error and stop before CausalImpact is called: nothing is produced for that
\* analysis or a later one. (A file without "date" never becomes a table:
\* read_csv raises, and the run ends there with nothing produced either.)
C1_SchemaErrorHalts ==
    /\ (LacksColumn(df) /\ pc # "validate")
          => /\ pc = "stopped" /\ st_error
             /\ estimator_calls = <<>>
             /\ impact = NoImpact /\ inferences = NoFrame
             /\ impact2 = NoImpact /\ inferences2 = NoFrame
    /\ (LacksColumn(df2) /\ pc # "validate2")
          => /\ pc = "stopped" /\ st_error
             /\ ~SecondCallMade
             /\ impact2 = NoImpact /\ inferences2 = NoFrame
    /\ (LacksColumn(csv_ci) /\ ~Loaded(df))
          => /\ pc = "raised" /\ raised = "ValueError"
             /\ estimator_calls = <<>>
             /\ impact = NoImpact /\ inferences = NoFrame
             /\ impact2 = NoImpact /\ inferences2 = NoFrame
    /\ st_error => pc = "stopped"
    /\ FirstCallMade => ClaimColumns \subseteq Range(df.columns)
    /\ SecondCallMade => ClaimColumns \subseteq Range(df2.columns)

C1_Witness ==
    /\ pc = "stopped" /\ st_error
    /\ LacksColumn(df) /\ "Paid Social" \notin Range(df.columns)
    /\ Len(df.rows) = periods

PeriodsDerived(frame, market, pause, pre, post) ==
    LET ts == GroupTimestamps(frame, market)
    IN  (\E t \in ts : t < pause)
           => /\ pre = <<Least(ts), Greatest({t \in ts : t < pause})>>
              /\ post = <<pause, Greatest(ts)>>

\* C2: when the selected market has a timestamp before the pause, the periods
\* are pre = [min(ts), max{ts < pause}] and post = [pause, max(ts)] over that
\* market's timestamps, in both analyses, whatever the order of the lines
C2_PeriodsDerived ==
    /\ pc = "causal_impact"
          => PeriodsDerived(df, selected_market, pause_date, pre_period, post_period)
    /\ pc = "causal_impact2"
          => PeriodsDerived(df2, selected_market, pause_date2,
                            pre_period2, post_period2)
    /\ \A k \in DOMAIN estimator_calls :
          LET call == estimator_calls[k]
              pause == IF k = 1 THEN pause_date ELSE pause_date2
              ts == Range(call.data.index)
          IN  (\E t \in ts : t < pause)
                 => /\ call.pre_period = <<Least(ts), Greatest({t \in ts : t < pause})>>
                    /\ call.post_period = <<pause, Greatest(ts)>>

\* three lines of one market, out of order, one timestamp twice, the pause
\* date itself among them
C2_Witness ==
    /\ pc = "causal_impact"
    /\ Len(df_m.index) = 3
    /\ df_m.index[1] > df_m.index[2]
    /\ HasDuplicates(df_m.index)
    /\ pause_date \in Range(df_m.index)
    /\ pre_period[2] = pause_date - freq_W

ExactlyGroup(frame, market, data) ==
    LET lines == GroupLines(frame, market)
        id(i) == frame.rows[i]["conversions"]
    IN  /\ data.columns = <<"conversions", "Paid Search", "Paid Social">>
        /\ Len(data.rows) = Cardinality(lines)
        /\ {data.rows[k]["conversions"] : k \in 1..Len(data.rows)}
              = {id(i) : i \in lines}
        /\ \A k \in 1..Len(data.rows) :
              \E i \in lines :
                 /\ DOMAIN data.rows[k] = {"conversions", "Paid Search", "Paid Social"}
                 /\ \A c \in DOMAIN data.rows[k] : data.rows[k][c] = frame.rows[i][c]
                 /\ data.index[k] = frame.rows[i]["date"]

\* C8: the series handed to the estimator holds exactly the selected market's
\* lines and exactly the columns conversions, Paid Search, Paid Social, in
\* that order, in both analyses and for every market the selection offers
C8_ExactlySelectedMarket ==
    /\ pc = "causal_impact"
          => /\ selected_market \in SelectboxChoices(Unique(Column(df, "market")))
             /\ ExactlyGroup(df, selected_market, ci_data)
    /\ pc = "causal_impact2"
          => /\ selected_market \in SelectboxChoices(Unique(Column(df2, "market")))
             /\ ExactlyGroup(df2, selected_market, ci_data2)
    /\ FirstCallMade => estimator_calls[1].data = ci_data
    /\ SecondCallMade => estimator_calls[2].data = ci_data2

C8_Witness ==
    /\ pc = "summary2"
    /\ SecondCallMade
    /\ selected_market = "FR"
    /\ Len(estimator_calls[2].data.rows) = periods
    /\ Len(df2.rows) = 2 * periods

-----------------------------------------------------------------------------
\* C3: CausalImpact is never called on a series with an empty pre-period (no
\* timestamp before the pause) or with a post-period that starts after it
\* ends (the pause after the latest timestamp)
C3_NoCallOutsideRange ==
    \A k \in DOMAIN estimator_calls :
        estimator_calls[k].data.index # <<>>
           => /\ estimator_calls[k].pre_period[2] # NaT
              /\ estimator_calls[k].post_period[1] <= estimator_calls[k].post_period[2]

\* C4: the series CausalImpact is called with has unique, strictly
\* increasing timestamps
C4_SeriesStrictlyIncreasing ==
    \A k \in DOMAIN estimator_calls :
        StrictlyIncreasing(estimator_calls[k].data.index)

\* C5: the displayed inference table has one row per timestamp of the
\* analysed series, each labelled with that timestamp
C5_OneRowPerTimestamp ==
    /\ Loaded(inferences) => inferences.index = impact.data.index
    /\ Loaded(inferences2) => inferences2.index = impact2.data.index

CumulativeColumns ==
    {"post_cum_effects", "post_cum_effects_lower", "post_cum_effects_upper"}

\* the displayed rows that lie before the pause, by their label and by the
\* timestamp of the series row they were computed for
PrePeriodRows(shown, imp, pause) ==
    {j \in 1..Len(shown.rows) :
        shown.index[j] < pause /\ imp.data.index[j + 1] < pause}

\* C6: in the displayed inference table the cumulative-effect fields of a
\* pre-period row are null, never a number
C6_PrePeriodCumulativeNull ==
    /\ Loaded(inferences) =>
          \A j \in PrePeriodRows(inferences, impact, pause_date) :
             \A c \in CumulativeColumns : inferences.rows[j][c] = NaN
    /\ Loaded(inferences2) =>
          \A j \in PrePeriodRows(inferences2, impact2, pause_date2) :
             \A c \in CumulativeColumns : inferences2.rows[j][c] = NaN

\* C7: each displayed metric is the full-precision summary value rounded
\* once, to the displayed precision
C7_RoundedOnce ==
    /\ (impact # NoImpact /\ pc # "summary") =>
          /\ avg_effect_fmt = FormatFixed2(impact.summary_data.abs_effect)
          /\ rel_effect_fmt = FormatPercent2(impact.summary_data.rel_effect)
          /\ ci_fmt = <<FormatPercent2(impact.summary_data.rel_effect_lower),
                        FormatPercent2(impact.summary_data.rel_effect_upper)>>
    /\ (impact2 # NoImpact /\ pc # "summary2") =>
          /\ avg_effect_fmt2 = FormatFixed2(impact2.summary_data.abs_effect)
          /\ rel_effect_fmt2 = FormatPercent2(impact2.summary_data.rel_effect)
          /\ ci_fmt2 = <<FormatPercent2(impact2.summary_data.rel_effect_lower),
                         FormatPercent2(impact2.summary_data.rel_effect_upper)>>

ActualIsObserved(shown, imp) ==
    \A j \in 1..Len(shown.rows) :
        \E i \in 1..Len(imp.data.index) :
            /\ imp.data.index[i] = shown.index[j]
            /\ shown.rows[j]["actual"] = Num(imp.data.rows[i]["conversions"])

\* C9: in every displayed row, actual is the conversions value the analysed
\* series has at that row's timestamp
C9_ActualIsObserved ==
    /\ Loaded(inferences) => ActualIsObserved(inferences, impact)
    /\ Loaded(inferences2) => ActualIsObserved(inferences2, impact2)

\* C10: the second analysis works on the table read from dummy_data_ci2.csv
C10_SecondAnalysisUsesSecondFile ==
    Loaded(df2) => df2 = csv_ci2

====
